---- MODULE Spec2Model ----
(***************************************************************************)
(* zulu: converts a local clock time (optionally annotated AM/PM) to UTC.  *)
(*                                                                         *)
(* The module models src/main.rs:                                          *)
(*   - Time::from_str and Meridian::from_str over character sequences,     *)
(*   - Args::zulu / Args::meridian as a step machine in which every        *)
(*     Local::now() call is a separate read of a host clock that may       *)
(*     advance between the reads,                                          *)
(*   - chrono's Date::and_hms and the Local -> Utc conversion.             *)
(*                                                                         *)
(* Clock values are minutes since 00:00 of local day 0; a UTC offset is a  *)
(* number of minutes east of Greenwich.                                    *)
(***************************************************************************)
EXTENDS Integers, Sequences, FiniteSets, TLC

VARIABLES
    pc,             \* position of the invocation
    arg,            \* the command-line token handed to a from_str
    parsedTime,     \* Result<Time, ParseHoursMinutesErr> of Time::from_str
    parsedMeridian, \* Result<Meridian, MeridianErr> of Meridian::from_str
    time,           \* Args.time    : Option<Time>
    am_pm,          \* Args.am_pm   : Option<Meridian>
    clock,          \* host local clock
    offset,         \* host UTC offset, minutes
    ticks,          \* how often the clock advanced during the invocation
    reads,          \* the values returned by the Local::now() calls, in order
    date,           \* zulu: let date
    t,              \* zulu: let time
    med,            \* value returned by self.meridian(), "unset" if not called
    hours,          \* zulu: let hours
    result          \* value returned by zulu, or the panic

vars == <<pc, arg, parsedTime, parsedMeridian, time, am_pm, clock, offset,
          ticks, reads, date, t, med, hours, result>>

(***************************************************************************)
(* Bounds                                                                  *)
(***************************************************************************)
MaxLen == 5         \* longest time token
MaxMarkerLen == 3   \* longest meridian token
MaxTicks == 2       \* clock advances during one invocation

U8Max == 255

\* characters of time tokens: digits, the separator, a sign, a non-digit
TimeChars == {"0", "2", "5", "6", ":", "+", "a"}
\* characters of meridian tokens
MarkerChars == {"A", "M", "P", "a", "m", "p", "x"}

RECURSIVE SeqsUpTo(_, _)
SeqsUpTo(S, n) ==
    IF n = 0 THEN {<<>>}
    ELSE LET shorter == SeqsUpTo(S, n - 1)
         IN  shorter \cup {Append(q, c) : q \in {r \in shorter : Len(r) = n - 1}, c \in S}

\* explicit minutes and host UTC offsets the invocation is tried with
SampleMinutes == {0, 15, 59, 60}
Offsets == {-720, -300, 0, 345, 840}

(***************************************************************************)
(* u8::from_str (core::num), as used by str::parse::<u8>()                 *)
(***************************************************************************)
IsDigit(c) == c \in {"0", "1", "2", "3", "4", "5", "6", "7", "8", "9"}

DigitVal(c) ==
    CASE c = "0" -> 0 [] c = "1" -> 1 [] c = "2" -> 2 [] c = "3" -> 3
      [] c = "4" -> 4 [] c = "5" -> 5 [] c = "6" -> 6 [] c = "7" -> 7
      [] c = "8" -> 8 [] c = "9" -> 9

IntOk(v) == [ok |-> TRUE, val |-> v, msg |-> ""]
IntErr(m) == [ok |-> FALSE, val |-> 0, msg |-> m]

Empty == "cannot parse integer from empty string"
InvalidDigit == "invalid digit found in string"
PosOverflow == "number too large to fit in target type"

RECURSIVE Accumulate(_, _)
Accumulate(digits, acc) ==
    IF digits = <<>> THEN IntOk(acc)
    ELSE IF ~IsDigit(Head(digits)) THEN IntErr(InvalidDigit)
    ELSE LET n == acc * 10 + DigitVal(Head(digits))
         IN  IF n > U8Max THEN IntErr(PosOverflow)
             ELSE Accumulate(Tail(digits), n)

ParseU8(src) ==
    IF src = <<>> THEN IntErr(Empty)
    ELSE IF Len(src) = 1 /\ src[1] \in {"+", "-"} THEN IntErr(InvalidDigit)
    ELSE Accumulate(IF src[1] = "+" THEN Tail(src) ELSE src, 0)

(***************************************************************************)
(* impl FromStr for Time                                                   *)
(***************************************************************************)
RECURSIVE Split(_)
Split(s) ==
    IF \A i \in 1..Len(s) : s[i] # ":" THEN <<s>>
    ELSE LET i == CHOOSE k \in 1..Len(s) :
                      s[k] = ":" /\ \A j \in 1..(k - 1) : s[j] # ":"
         IN  <<SubSeq(s, 1, i - 1)>> \o Split(SubSeq(s, i + 1, Len(s)))

TimeOk(h, m) == [ok |-> TRUE, hours |-> h, minutes |-> m, err |-> <<>>]
TimeErr(e) == [ok |-> FALSE, hours |-> 0, minutes |-> 0, err |-> e]

TimeFromStrSwapped(s) ==
    LET parts == Split(s)
    IN  IF Len(parts) < 1 THEN TimeErr(<<"missing hours">>)
        ELSE LET h == ParseU8(parts[1])
        IN  IF ~h.ok THEN TimeErr(<<"unable to parse hours: ", h.msg>>)
        ELSE IF Len(parts) < 2 THEN TimeErr(<<"missing minutes">>)
        ELSE LET m == ParseU8(parts[2])
        IN  IF ~m.ok THEN TimeErr(<<"unable to parse minutes: ", m.msg>>)
        ELSE IF Len(parts) > 2 THEN TimeErr(<<"bad time format">>)
        ELSE TimeOk(m.val, h.val)

TimeFromStrNoTrailingCheck(s) ==
    LET parts == Split(s)
    IN  IF Len(parts) < 1 THEN TimeErr(<<"missing hours">>)
        ELSE LET h == ParseU8(parts[1])
        IN  IF ~h.ok THEN TimeErr(<<"unable to parse hours: ", h.msg>>)
        ELSE IF Len(parts) < 2 THEN TimeErr(<<"missing minutes">>)
        ELSE LET m == ParseU8(parts[2])
        IN  IF ~m.ok THEN TimeErr(<<"unable to parse minutes: ", m.msg>>)
        ELSE TimeOk(h.val, m.val)

TimeFromStr(s) ==
    LET parts == Split(s)
    IN  IF Len(parts) < 1 THEN TimeErr(<<"missing hours">>)
        ELSE LET h == ParseU8(parts[1])
        IN  IF ~h.ok THEN TimeErr(<<"unable to parse hours: ", h.msg>>)
        ELSE IF Len(parts) < 2 THEN TimeErr(<<"missing minutes">>)
        ELSE LET m == ParseU8(parts[2])
        IN  IF ~m.ok THEN TimeErr(<<"unable to parse minutes: ", m.msg>>)
        ELSE IF Len(parts) > 2 THEN TimeErr(<<"bad time format">>)
        ELSE TimeOk(h.val, m.val)

(***************************************************************************)
(* enum Meridian, impl FromStr for Meridian, Display for MeridianErr       *)
(***************************************************************************)
MeridianOk(m) == [ok |-> TRUE, value |-> m, err |-> <<>>]

\* MeridianErr(unknown) rendered by its Display impl
MeridianErr(unknown) ==
    [ok |-> FALSE, value |-> "None", err |-> <<"unknown am/pm marker: ">> \o unknown]

Lower(c) ==
    CASE c = "A" -> "a" [] c = "M" -> "m" [] c = "P" -> "p" [] OTHER -> c

MeridianFromStrAnyCase(s) ==
    LET l == [i \in 1..Len(s) |-> Lower(s[i])]
    IN  IF l = <<"a", "m">> THEN MeridianOk("AM")
        ELSE IF l = <<"p", "m">> THEN MeridianOk("PM")
        ELSE MeridianErr(s)

MeridianFromStr(s) ==
    IF s = <<"A", "M">> \/ s = <<"a", "m">> THEN MeridianOk("AM")
    ELSE IF s = <<"P", "M">> \/ s = <<"p", "m">> THEN MeridianOk("PM")
    ELSE MeridianErr(s)

is_pm(m) == m = "PM"

(***************************************************************************)
(* chrono: the host clock, Timelike, Date::and_hms, DateTime<Utc>::from    *)
(***************************************************************************)
DayOf(now) == now \div 1440
Hour(now) == (now % 1440) \div 60
Minute(now) == now % 60

\* Timelike::hour12().1
hour12(h) == IF h % 12 = 0 THEN 12 ELSE h % 12

\* impl From<DateTime<Local>> for Time
TimeFromLocal(now) == [hours |-> hour12(Hour(now)), minutes |-> Minute(now)]

NoInstant == [kind |-> "none", date |-> 0, hour |-> 0, minute |-> 0, second |-> 0]
Panic == [kind |-> "panic", date |-> 0, hour |-> 0, minute |-> 0, second |-> 0]

\* the DateTime<Utc> of a local date-time: the local seconds less the offset
ToUtcAdded(d, h, m, s, off) ==
    LET secs == h * 3600 + m * 60 + s + off * 60
        rem == secs % 86400
    IN  [kind |-> "utc", date |-> d + (secs \div 86400),
         hour |-> rem \div 3600, minute |-> (rem % 3600) \div 60,
         second |-> rem % 60]

ToUtc(d, h, m, s, off) ==
    LET secs == h * 3600 + m * 60 + s - off * 60
        rem == secs % 86400
    IN  [kind |-> "utc", date |-> d + (secs \div 86400),
         hour |-> rem \div 3600, minute |-> (rem % 3600) \div 60,
         second |-> rem % 60]

\* Date::and_hms(hour, min, sec).into(): panics on an invalid time of day
and_hms(d, h, m, s, off) ==
    IF h < 24 /\ m < 60 /\ s < 60 THEN ToUtc(d, h, m, s, off) ELSE Panic

(***************************************************************************)
(* impl Args                                                               *)
(***************************************************************************)
None == [some |-> FALSE, hours |-> 0, minutes |-> 0]
Some(h, m) == [some |-> TRUE, hours |-> h, minutes |-> m]

meridianNoonIsAM(explicit, now) ==
    IF explicit # "None" THEN explicit
    ELSE IF Hour(now) <= 12 THEN "AM" ELSE "PM"

\* Args::meridian, with now the value of its Local::now()
meridian(explicit, now) ==
    IF explicit # "None" THEN explicit
    ELSE IF Hour(now) < 12 THEN "AM" ELSE "PM"

EffectiveHoursNoGuard(h, explicit, now) ==
    IF is_pm(meridian(explicit, now)) THEN (h + 12) % (U8Max + 1) ELSE h

EffectiveHoursInclusive(h, explicit, now) ==
    IF h <= 12 /\ is_pm(meridian(explicit, now)) THEN (h + 12) % (U8Max + 1) ELSE h

\* zulu: let hours = if time.hours < 12 && self.meridian().is_pm() {..} else {..}
\* (u8 arithmetic)
EffectiveHours(h, explicit, now) ==
    IF h < 12 /\ is_pm(meridian(explicit, now)) THEN (h + 12) % (U8Max + 1) ELSE h

(***************************************************************************)
(* Initial states                                                          *)
(***************************************************************************)
NotParsedTime == [ok |-> FALSE, hours |-> 0, minutes |-> 0, err |-> <<>>]
NotParsedMeridian == [ok |-> FALSE, value |-> "None", err |-> <<>>]
NoTime == [hours |-> 0, minutes |-> 0]

\* the host clock is observed on the hour and one minute before the hour
ClockPoints == {h * 60 + m : h \in 0..23, m \in {0, 59}}
NextPoint(c) == IF Minute(c) = 0 THEN c + 59 ELSE c + 1

SampleTimes ==
    {Some(0, 0), Some(9, 15), Some(11, 59), Some(12, 0), Some(21, 15),
     Some(23, 59), Some(24, 0), Some(9, 60)}

Idle ==
    /\ arg = <<>>
    /\ parsedTime = NotParsedTime
    /\ parsedMeridian = NotParsedMeridian
    /\ ticks = 0
    /\ reads = <<>>
    /\ date = 0
    /\ t = NoTime
    /\ med = "unset"
    /\ hours = 0
    /\ result = NoInstant

\* run(&args): any arguments, any time of day, any offset
Init ==
    /\ pc = "zulu"
    /\ time \in {None} \cup SampleTimes
    /\ am_pm \in {"None", "AM", "PM"}
    /\ clock \in ClockPoints
    /\ offset \in Offsets
    /\ Idle

\* run(&args) with an explicit time of every u8 hours value
InitU8 ==
    /\ pc = "zulu"
    /\ time \in {Some(h, m) : h \in 0..U8Max, m \in SampleMinutes}
    /\ am_pm \in {"None", "AM", "PM"}
    /\ clock \in {9 * 60, 15 * 60}
    /\ offset = 0
    /\ Idle

\* clap handing the first positional token to Time::from_str
InitTime ==
    /\ pc = "Time::from_str"
    /\ arg \in SeqsUpTo(TimeChars, MaxLen)
    /\ parsedTime = NotParsedTime
    /\ parsedMeridian = NotParsedMeridian
    /\ time = None /\ am_pm = "None" /\ clock = 0 /\ offset = 0
    /\ ticks = 0 /\ reads = <<>> /\ date = 0 /\ t = NoTime
    /\ med = "unset" /\ hours = 0 /\ result = NoInstant

\* clap handing the second positional token to Meridian::from_str
InitMeridian ==
    /\ pc = "Meridian::from_str"
    /\ arg \in SeqsUpTo(MarkerChars, MaxMarkerLen)
    /\ parsedTime = NotParsedTime
    /\ parsedMeridian = NotParsedMeridian
    /\ time = None /\ am_pm = "None" /\ clock = 0 /\ offset = 0
    /\ ticks = 0 /\ reads = <<>> /\ date = 0 /\ t = NoTime
    /\ med = "unset" /\ hours = 0 /\ result = NoInstant

(***************************************************************************)
(* Actions                                                                 *)
(***************************************************************************)
\* Time::from_str(s)
ParseTime ==
    /\ pc = "Time::from_str"
    /\ parsedTime' = TimeFromStr(arg)
    /\ pc' = IF parsedTime'.ok THEN "Ok" ELSE "Err"
    /\ UNCHANGED <<arg, parsedMeridian, time, am_pm, clock, offset, ticks,
                   reads, date, t, med, hours, result>>

\* Meridian::from_str(s)
ParseMeridian ==
    /\ pc = "Meridian::from_str"
    /\ parsedMeridian' = MeridianFromStr(arg)
    /\ pc' = IF parsedMeridian'.ok THEN "Ok" ELSE "Err"
    /\ UNCHANGED <<arg, parsedTime, time, am_pm, clock, offset, ticks,
                   reads, date, t, med, hours, result>>

\* zulu: let date = Local::now().date();
ReadDate ==
    /\ pc = "zulu"
    /\ date' = DayOf(clock)
    /\ reads' = Append(reads, clock)
    /\ pc' = "time"
    /\ UNCHANGED <<arg, parsedTime, parsedMeridian, time, am_pm, clock,
                   offset, ticks, t, med, hours, result>>

\* zulu: let time = self.time.unwrap_or_else(|| Local::now().into());
ReadTime ==
    /\ pc = "time"
    /\ t' = IF time.some THEN [hours |-> time.hours, minutes |-> time.minutes]
            ELSE TimeFromLocal(clock)
    /\ reads' = IF time.some THEN reads ELSE Append(reads, clock)
    /\ pc' = "hours"
    /\ UNCHANGED <<arg, parsedTime, parsedMeridian, time, am_pm, clock,
                   offset, ticks, date, med, hours, result>>

\* zulu: let hours = ...; self.meridian() is called only when time.hours < 12
\* and reads the clock only when am_pm is None
ComputeHours ==
    /\ pc = "hours"
    /\ hours' = EffectiveHours(t.hours, am_pm, clock)
    /\ med' = IF t.hours < 12 THEN meridian(am_pm, clock) ELSE "unset"
    /\ reads' = IF t.hours < 12 /\ am_pm = "None" THEN Append(reads, clock)
                ELSE reads
    /\ pc' = "and_hms"
    /\ UNCHANGED <<arg, parsedTime, parsedMeridian, time, am_pm, clock,
                   offset, ticks, date, t, result>>

\* zulu: date.and_hms(hours.into(), time.minutes.into(), 0).into()
Build ==
    /\ pc = "and_hms"
    /\ result' = and_hms(date, hours, t.minutes, 0, offset)
    /\ pc' = IF result'.kind = "panic" THEN "panic" ELSE "done"
    /\ UNCHANGED <<arg, parsedTime, parsedMeridian, time, am_pm, clock,
                   offset, ticks, reads, date, t, med, hours>>

\* the host clock advances between two statements of zulu
Tick ==
    /\ pc \in {"time", "hours"}
    /\ ticks < MaxTicks
    /\ clock' = NextPoint(clock)
    /\ ticks' = ticks + 1
    /\ UNCHANGED <<pc, arg, parsedTime, parsedMeridian, time, am_pm, offset,
                   reads, date, t, med, hours, result>>

Next == ReadDate \/ ReadTime \/ ComputeHours \/ Build \/ Tick
NextU8 == ReadDate \/ ReadTime \/ ComputeHours \/ Build
NextTime == ParseTime
NextMeridian == ParseMeridian

Spec == Init /\ [][Next]_vars
SpecU8 == InitU8 /\ [][NextU8]_vars
SpecTime == InitTime /\ [][NextTime]_vars
SpecMeridian == InitMeridian /\ [][NextMeridian]_vars

TypeOK ==
    /\ pc \in {"zulu", "time", "hours", "and_hms", "done", "panic",
               "Time::from_str", "Meridian::from_str", "Ok", "Err"}
    /\ am_pm \in {"None", "AM", "PM"}
    /\ med \in {"unset", "AM", "PM"}
    /\ hours \in 0..U8Max
    /\ t.hours \in 0..U8Max /\ t.minutes \in 0..U8Max
    /\ ticks \in 0..MaxTicks
    /\ Len(reads) \in 0..3
    /\ result.kind \in {"none", "utc", "panic"}

(***************************************************************************)
(* Properties                                                              *)
(***************************************************************************)
Computed == pc \in {"and_hms", "done", "panic"}
Returned == pc \in {"done", "panic"}

\* C1: effective_hours is hours + 12 exactly when hours < 12 and the active
\* meridian is PM, and hours in every other case; an hour >= 12 is never
\* adjusted, whatever the meridian.
C1_EffectiveHours ==
    Computed =>
        /\ (t.hours < 12 /\ med = "PM") => hours = t.hours + 12
        /\ ~(t.hours < 12 /\ med = "PM") => hours = t.hours
        /\ t.hours >= 12 => hours = t.hours

C1_Witness ==
    /\ pc = "done" /\ time = Some(9, 15) /\ am_pm = "PM"
    /\ med = "PM" /\ hours = 21

\* C2: with neither an explicit time nor an explicit meridian, and the clock
\* standing still during the invocation, the result is the current local
\* hour and minute converted to UTC, seconds dropped.
C2_ReproducesNow ==
    (Returned /\ ~time.some /\ am_pm = "None" /\ ticks = 0) =>
        result = ToUtc(DayOf(clock), Hour(clock), Minute(clock), 0, offset)

\* C3: zulu returns a UTC instant for every Time and never aborts.
C3_NeverAborts == pc # "panic" /\ result.kind # "panic"

\* zulu evaluated against one clock snapshot
Resolve(explicit_time, explicit_meridian, now_local, off) ==
    LET tm == IF explicit_time.some
              THEN [hours |-> explicit_time.hours, minutes |-> explicit_time.minutes]
              ELSE TimeFromLocal(now_local)
    IN  and_hms(DayOf(now_local),
                EffectiveHours(tm.hours, explicit_meridian, now_local),
                tm.minutes, 0, off)

\* C4: the result of an invocation is the resolution of one value of the
\* host clock, among those the clock had while the invocation ran.
C4_SingleSnapshot ==
    Returned =>
        \E now_local \in reads[1]..clock :
            result = Resolve(time, am_pm, now_local, offset)

\* C5: an explicit meridian overrides the inference; without one the meridian
\* is AM when the hour of the clock read by Args::meridian is strictly less
\* than 12 and PM otherwise, whatever the time being resolved.
C5_MeridianInference ==
    med # "unset" =>
        /\ am_pm # "None" => med = am_pm
        /\ am_pm = "None" =>
              /\ Hour(reads[Len(reads)]) < 12 => med = "AM"
              /\ Hour(reads[Len(reads)]) >= 12 => med = "PM"

C5_Witness ==
    /\ Computed /\ time = Some(9, 15) /\ am_pm = "None"
    /\ Hour(reads[Len(reads)]) = 12 /\ med = "PM"

\* C6: the returned instant has seconds 0, its minute of the day is
\* (effective_hours * 60 + minutes - offset) mod 1440, and its date is the
\* day before or after the local date exactly when the subtraction crosses
\* midnight.
C6_UtcConversion ==
    pc = "done" =>
        LET x == hours * 60 + t.minutes - offset
        IN  /\ result.kind = "utc"
            /\ result.second = 0
            /\ result.hour \in 0..23 /\ result.minute \in 0..59
            /\ result.hour * 60 + result.minute = x % 1440
            /\ x < 0 => result.date = date - 1
            /\ x >= 1440 => result.date = date + 1
            /\ x \in 0..1439 => result.date = date

C6_Witness ==
    /\ pc = "done" /\ offset = 345 /\ hours = 0 /\ t.minutes = 0
    /\ result.date = date - 1 /\ result.hour = 18 /\ result.minute = 15

\* the token is H:MM or HH:MM with decimal digits and minutes at most 59
IsHMM(a) ==
    /\ Len(a) \in {4, 5}
    /\ a[Len(a) - 2] = ":"
    /\ \A i \in 1..Len(a) : i # Len(a) - 2 => IsDigit(a[i])
    /\ 10 * DigitVal(a[Len(a) - 1]) + DigitVal(a[Len(a)]) <= 59

HoursWritten(a) ==
    IF Len(a) = 4 THEN DigitVal(a[1]) ELSE 10 * DigitVal(a[1]) + DigitVal(a[2])

MinutesWritten(a) == 10 * DigitVal(a[Len(a) - 1]) + DigitVal(a[Len(a)])

\* C7: a token H:MM or HH:MM with minutes in 0..59 parses, and the Time has
\* the hours and minutes written in the token.
C7_RoundTrip ==
    (pc # "Time::from_str" /\ IsHMM(arg)) =>
        /\ pc = "Ok" /\ parsedTime.ok
        /\ parsedTime.hours = HoursWritten(arg)
        /\ parsedTime.minutes = MinutesWritten(arg)

C7_Witness ==
    /\ pc = "Ok" /\ arg = <<"2", "5", ":", "0", "6">>
    /\ parsedTime.hours = 25 /\ parsedTime.minutes = 6

\* number of ':'-delimited fields of a token
NumFields(a) == 1 + Cardinality({i \in 1..Len(a) : a[i] = ":"})

\* C8, as stated: a token with other than two fields fails, with "bad time
\* format" for more than two fields and a "missing ..." error for fewer than
\* two, whatever the fields hold; only two integer fields are accepted.
C8_FieldCountErrors ==
    pc # "Time::from_str" =>
        /\ NumFields(arg) # 2 => ~parsedTime.ok
        /\ NumFields(arg) > 2 => parsedTime.err = <<"bad time format">>
        /\ NumFields(arg) < 2 =>
              parsedTime.err \in {<<"missing hours">>, <<"missing minutes">>}
        /\ parsedTime.ok =>
              /\ NumFields(arg) = 2
              /\ ParseU8(Split(arg)[1]).ok /\ ParseU8(Split(arg)[2]).ok

\* C8, amended: a token with other than two fields fails; the error is that
\* of the first of the first two fields that is no u8 integer, if any;
\* otherwise "missing minutes" for one field and "bad time format" for more
\* than two; "missing hours" never occurs; a token is accepted exactly when
\* it has two fields that are both u8 integers.
C8_FieldCountErrorsAmended ==
    pc # "Time::from_str" =>
        LET n == NumFields(arg)
            h == ParseU8(Split(arg)[1])
            m == ParseU8(Split(arg)[2])
        IN  /\ n # 2 => ~parsedTime.ok
            /\ parsedTime.ok <=> (n = 2 /\ h.ok /\ m.ok)
            /\ ~h.ok => parsedTime.err = <<"unable to parse hours: ", h.msg>>
            /\ (h.ok /\ n < 2) => parsedTime.err = <<"missing minutes">>
            /\ (h.ok /\ n >= 2 /\ ~m.ok) =>
                  parsedTime.err = <<"unable to parse minutes: ", m.msg>>
            /\ (h.ok /\ n > 2 /\ m.ok) => parsedTime.err = <<"bad time format">>
            /\ parsedTime.err # <<"missing hours">>

C8_Witness ==
    /\ pc = "Err" /\ arg = <<"a", ":", "0", ":", "0">>
    /\ parsedTime.err = <<"unable to parse hours: ", InvalidDigit>>

\* C9: exactly "AM", "am" give AM and "PM", "pm" give PM; every other token
\* is rejected with "unknown am/pm marker: " followed by the token.
C9_MeridianTokens ==
    pc # "Meridian::from_str" =>
        /\ parsedMeridian.ok <=>
              arg \in {<<"A", "M">>, <<"a", "m">>, <<"P", "M">>, <<"p", "m">>}
        /\ parsedMeridian.ok =>
              parsedMeridian.value = (IF arg[1] \in {"A", "a"} THEN "AM" ELSE "PM")
        /\ ~parsedMeridian.ok =>
              /\ Len(parsedMeridian.err) = Len(arg) + 1
              /\ parsedMeridian.err[1] = "unknown am/pm marker: "
              /\ \A i \in 1..Len(arg) : parsedMeridian.err[i + 1] = arg[i]

C9_Witness ==
    /\ pc = "Err" /\ arg = <<"A", "m">>
    /\ parsedMeridian.err = <<"unknown am/pm marker: ", "A", "m">>

\* C10: the u8 addition never wraps: effective_hours is hours or hours + 12,
\* the latter only for hours < 12, so it is never below hours and, when
\* adjusted, lies in 12..23.
C10_NoOverflow ==
    Computed =>
        /\ hours >= t.hours
        /\ hours <= U8Max
        /\ hours # t.hours => (t.hours < 12 /\ hours - t.hours = 12 /\ hours \in 12..23)

C10_Witness ==
    /\ Computed /\ t.hours = U8Max /\ am_pm = "PM" /\ hours = U8Max

====
